---- MODULE Spec2Model ----
(***************************************************************************)
(* A model of the versioned-datastore tile server (package maps).          *)
(*                                                                         *)
(* Spec         Tile.as_grid, the UTFGrid encoder, called with the marks   *)
(*              its get_marks hook yields (maps/tiles/__init__.py).        *)
(* SpecIdGen    Tile.get_point_id_generator, the id/character stream.      *)
(* SpecFn       the pure helpers (get_points_to_mark, assign_colour,       *)
(*              rebuild_data, calculate_precision, get_marks) applied to   *)
(*              inputs drawn from bounded sets.                            *)
(* SpecRequest  render_tile, the HTTP handler (maps/web.py), step by step. *)
(* SpecLru      draw_point and draw_heatmap_point behind lru_cache         *)
(*              (maps/tiles/points.py).                                    *)
(* SpecGridded  Tile.as_grid over the marks of GriddedTile.get_marks.      *)
(* SpecFork     init_elasticsearch and app.client in a server that forks   *)
(*              its workers (maps/web.py).                                 *)
(* SpecPointCache  PointCache.get_point of maps/tiles.py, called from      *)
(*              several threads, statement by statement.                   *)
(*                                                                         *)
(* Characters are modelled by their code points (chr is injective), text   *)
(* that the code splits or strips by sequences of one-character strings,   *)
(* and floats that only ever hold whole numbers by integers.               *)
(***************************************************************************)
EXTENDS Integers, Sequences, FiniteSets, TLC

VARIABLES
    pc,               \* as_grid: "ready", "marking", "returned" or "raised"
    grid_resolution,  \* as_grid argument
    point_width,      \* as_grid argument
    grid_size,        \* local of as_grid
    grid,             \* local of as_grid: rows of code points, grid[y + 1][x + 1]
    keys,             \* local of as_grid: list of strings
    data,             \* local of as_grid: dict from key string to point data
    point_id,         \* state of the point id generator: the last id it yielded
    marks,            \* the marks get_marks has yielded so far, in order
    raised,           \* the exception that ended the call, or "none"
    yielded,          \* the pairs the point id generator has yielded, in order
    call,             \* the helper applied and its arguments; fn is "none" before
    result,           \* what the helper returned
    request,          \* render_tile: the request, its type and its query args
    rpc,              \* render_tile: the statement the handler is at
    kwargs,           \* render_tile: what extract_search_params returned
    searched,         \* render_tile: search has been called
    params,           \* render_tile: the style parameters extracted
    response,         \* render_tile: "none", or the kind of response returned
    error,            \* render_tile: the exception that ended it, or "none"
    cached_fn,        \* lru_cache: the decorated function called, or "none"
    lru,              \* lru_cache: the keys cached, the least recently used first
    ever_computed,    \* lru_cache: the keys the function was computed for
    cache,            \* PointCache.cache: dict from key to point image
    tpc,              \* get_point: the statement each thread is at
    tkey,             \* get_point: each thread's local `key`
    tvalue,           \* get_point: what create_point returned to each thread
    returned,         \* get_point: what each thread's call returned
    host,             \* the server the app runs under: "uwsgi", "other"; "none" before import
    app_client,       \* app.client in every process: 0 is the master, 1.. the workers
    search_log        \* the searches run in workers: the worker and the client used

as_grid_vars == <<pc, grid_resolution, point_width, grid_size, grid, keys, data,
                  point_id, marks, raised>>

fn_vars == <<yielded, call, result>>

request_vars == <<request, rpc, kwargs, searched, params, response, error>>

cache_vars == <<cached_fn, lru, ever_computed, cache, tpc, tkey, tvalue, returned>>

fork_vars == <<host, app_client, search_log>>

-----------------------------------------------------------------------------
(* Bounds of the model *)

\* how many marks get_marks yields at most in one call
MaxMarks == 2

\* the largest point_width a call is given
MaxPointWidth == 5

\* how many ids the point id generator is asked for at most
MaxPointId == 100

\* the largest coordinate get_points_to_mark is applied to
MaxCoord == 7

\* the largest count and range_size assign_colour is applied to
MaxCount == 150

MaxRangeSize == 5

\* record trees: the depth of the nodes below the root
MaxDepth == 2

\* calculate_precision is applied to the zoom levels -MaxZoom..MaxZoom
MaxZoom == 25

\* the longest list of points get_marks is applied to
MaxBuckets == 2

\* the number of distinct keys the cached functions are called with
MaxKeys == 130

\* the number of threads that call PointCache.get_point
MaxThreads == 2

\* longitude_to_x is applied to the whole degrees -MaxLongitude..MaxLongitude
MaxLongitude == 540

\* the largest zoom level z of a tile
MaxTileZ == 19

\* the largest zoom level of the tiles whose corners are computed
MaxCornerZ == 2

\* the number of workers the server forks
MaxWorkers == 4

\* the largest radius of a heatmap point
MaxRadius == 2

-----------------------------------------------------------------------------
(* Program constants *)

\* Tile.__init__: tile_size=256
TileSize == 256

\* the code point of ' ', the filler of the blank grid
Space == 32

\* GridNotPowerOfTwoException.__init__(self, grid_width, grid_height)
GridNotPowerOfTwoExceptionArity == 2

-----------------------------------------------------------------------------
(* Python arithmetic *)

\* a // b: floor division; ZeroDivisionError is handled by the callers
FloorDiv(a, b) == IF b > 0 THEN a \div b ELSE (0 - a) \div (0 - b)

RECURSIVE BitAnd(_, _)
\* a & b on non-negative integers
BitAnd(a, b) ==
    IF a = 0 \/ b = 0 THEN 0
    ELSE (IF a % 2 = 1 /\ b % 2 = 1 THEN 1 ELSE 0) + 2 * BitAnd(a \div 2, b \div 2)

\* maps.utils.is_power_of_two: number != 0 and number & (number - 1) == 0.
\* For number < 0 both operands are negative, their sign bits are both set and
\* so is the sign bit of the result: it is not 0.
is_power_of_two(number) ==
    /\ number # 0
    /\ IF number < 0 THEN FALSE ELSE BitAnd(number, number - 1) = 0

Digits == <<"0", "1", "2", "3", "4", "5", "6", "7", "8", "9">>

RECURSIVE str(_)
\* str(n) of a non-negative integer: its decimal digits
str(n) == IF n < 10 THEN Digits[n + 1] ELSE str(n \div 10) \o Digits[(n % 10) + 1]

abs(n) == IF n < 0 THEN 0 - n ELSE n

RECURSIVE gcd(_, _)
gcd(a, b) == IF b = 0 THEN a ELSE gcd(b, a % b)

\* a float that holds n / d exactly, d > 0: the fraction in lowest terms
Fraction(n, d) ==
    LET g == gcd(abs(n), d)
    IN  [n |-> n \div g, d |-> d \div g]

FracAdd(a, b) == Fraction(a.n * b.d + b.n * a.d, a.d * b.d)

FracNeg(a) == [n |-> 0 - a.n, d |-> a.d]

FracSub(a, b) == FracAdd(a, FracNeg(b))

FracMul(a, b) == Fraction(a.n * b.n, a.d * b.d)

FracLess(a, b) == a.n * b.d < b.n * a.d

\* min and max of two floats
FracMin(a, b) == IF FracLess(b, a) THEN b ELSE a

FracMax(a, b) == IF FracLess(a, b) THEN b ELSE a

-----------------------------------------------------------------------------
(* Tile.get_point_id_generator *)

\* the encoded id of point_id: the UTFGrid escape of " and \
EncodeId_NoBackslashSkip(id) ==
    LET e1 == id + 32
    IN  IF e1 >= 34 THEN e1 + 1 ELSE e1

EncodeId_NoSkip(id) == id + 32

EncodeId(id) ==
    LET e1 == id + 32
        e2 == IF e1 >= 34 THEN e1 + 1 ELSE e1
    IN  IF e2 >= 92 THEN e2 + 1 ELSE e2

\* a generator made anew for every mark yields its first pair every time
NextPointId_Restart(last) == <<str(1), EncodeId(1)>>

\* next(point_id_generator) after `last` was yielded: the pair (str id, chr)
NextPointId(last) == <<str(last + 1), EncodeId(last + 1)>>

-----------------------------------------------------------------------------
(* Tile.get_points_to_mark *)

\* the diamond the docstring draws: the cells within offset steps of (x, y)
get_points_to_mark_Diamond(x, y, width) ==
    LET offset == FloorDiv(width, 2)
        range == (0 - offset)..offset
    IN  IF offset # 0
        THEN {<<x + p[1], y + p[2]>> :
                 p \in {q \in range \X range : abs(q[1]) + abs(q[2]) <= offset}}
        ELSE {<<x, y>>}

\* the set of (x, y) pairs the generator yields
get_points_to_mark(x, y, width) ==
    LET offset == FloorDiv(width, 2)
        range == (0 - offset)..offset
    IN  IF offset # 0
        THEN {<<x + p[1], y + p[2]>> :
                 p \in {q \in range \X range :
                            ~(abs(q[1]) = offset /\ abs(q[2]) = offset)}}
        ELSE {<<x, y>>}

-----------------------------------------------------------------------------
(* maps.utils: record trees and their rebuild *)

\* A value of a record tree is a node: a dict, a list or a plain value. The
\* items of a dict are its (key, node) pairs in insertion order, those of a
\* list its elements, each paired with the empty key; keys are text.
Dict(items) == [type |-> "dict", items |-> items, value |-> ""]

List(elements) ==
    [type |-> "list",
     items |-> [i \in 1..Len(elements) |-> <<<<>>, elements[i]>>],
     value |-> ""]

Value(v) == [type |-> "value", items |-> <<>>, value |-> v]

\* the keys the trees use: "_u", "_id", "_x" and "a"
KeyU == <<"_", "u">>

KeyId == <<"_", "i", "d">>

KeyX == <<"_", "x">>

KeyA == <<"a">>

\* {"_u": node}, a parsed value and the original it wraps
Wrap(node) == Dict(<<<<KeyU, node>>>>)

\* key in value, value[key] for a dict node
HasKey(node, key) == \E i \in 1..Len(node.items) : node.items[i][1] = key

GetItem(node, key) ==
    node.items[CHOOSE i \in 1..Len(node.items) : node.items[i][1] = key][2]

\* key.startswith("_")
startswith_underscore(key) == key # <<>> /\ Head(key) = "_"

\* the items a structural dict keeps: line 107
Kept(item) == ~startswith_underscore(item[1]) \/ item[1] = KeyId

RECURSIVE rebuild_dict_or_list(_)
rebuild_dict_or_list(value) ==
    IF value.type = "dict"
    THEN IF HasKey(value, KeyU)
         THEN GetItem(value, KeyU)
         ELSE LET kept == SelectSeq(value.items, Kept)
              IN  Dict([i \in 1..Len(kept) |->
                           <<kept[i][1], rebuild_dict_or_list(kept[i][2])>>])
    ELSE IF value.type = "list"
    THEN List([i \in 1..Len(value.items) |->
                  rebuild_dict_or_list(value.items[i][2])])
    ELSE value

\* rebuild_data: every item of the root is kept, its value rebuilt
rebuild_data(parsed_data) ==
    Dict([i \in 1..Len(parsed_data.items) |->
             <<parsed_data.items[i][1], rebuild_dict_or_list(parsed_data.items[i][2])>>])

RECURSIVE Nodes(_)
\* the nodes of at most the given depth below them
Nodes(depth) ==
    IF depth = 0 THEN {Value("1")}
    ELSE LET below == Nodes(depth - 1)
         IN  below
             \cup {Wrap(node) : node \in below}
             \cup {List(<<node>>) : node \in below}
             \cup {Dict(<<<<key, node>>>>) : key \in {KeyA, KeyX, KeyId}, node \in below}

\* the parsed data dicts considered: one or two items at the root
ParsedData ==
    LET nodes == Nodes(MaxDepth)
    IN  {Dict(<<<<key, node>>>>) : key \in {KeyA, KeyX}, node \in nodes}
        \cup {Dict(<<<<KeyA, one>>, <<KeyX, two>>>>) :
                  one \in Nodes(1), two \in nodes}

-----------------------------------------------------------------------------
(* Tile.as_grid *)

\* the representative record of a mark: meta.geo is "lat,lon", data the tree
Records ==
    {[meta |-> [geo |-> <<"5", "1", ",", "7">>],
      data |-> Dict(<<<<KeyA, Wrap(Value("x"))>>, <<KeyX, Value("1")>>>>)]}

\* the 6-tuples (latitude, longitude, x, y, total, first) get_marks may yield
\* for a grid of the given size: cells in the grid and one cell beyond each edge
Marks(size) ==
    [latitude : {50}, longitude : {8}, x : -1..size, y : -1..size,
     total : {1, 2}, first : Records]

\* the grid_resolution values a call is given: divisors of the tile size that
\* give a grid of one or two cells a side, values that do not divide it, a
\* value above it, zero and a negative
GridResolutions == {-1, 0, 3, 128, 200, 256, 300}

\* to_mark: the cells of the mark's diamond that lie in the grid, as (y, x)
to_mark_Unfiltered(m, size, width) ==
    {<<c[2], c[1]>> : c \in get_points_to_mark(m.x, m.y, width)}

to_mark(m, size, width) ==
    {<<c[2], c[1]>> : c \in {p \in get_points_to_mark(m.x, m.y, width) :
                                /\ 0 <= p[1] /\ p[1] < size
                                /\ 0 <= p[2] /\ p[2] < size}}

RECURSIVE SplitAt(_, _, _)
\* text.split(sep) on a sequence of characters: the list of pieces
SplitAt(text, sep, piece) ==
    IF text = <<>> THEN <<piece>>
    ELSE IF Head(text) = sep THEN <<piece>> \o SplitAt(Tail(text), sep, <<>>)
    ELSE SplitAt(Tail(text), sep, Append(piece, Head(text)))

split(text, sep) == SplitAt(text, sep, <<>>)

DigitValue(ch) == (CHOOSE i \in 1..10 : Digits[i] = ch) - 1

RECURSIVE ParseNumber(_, _)
\* float(text) of a string of decimal digits
ParseNumber(text, acc) ==
    IF text = <<>> THEN acc ELSE ParseNumber(Tail(text), 10 * acc + DigitValue(Head(text)))

float(text) == ParseNumber(text, 0)

\* data[point_id] of a marked point
PointData(m) ==
    LET geo == split(m.first.meta.geo, ",")
        report_latitude == IF m.total = 1 THEN float(geo[1]) ELSE m.latitude
        report_longitude == IF m.total = 1 THEN float(geo[2]) ELSE m.longitude
    IN  [count |-> m.total,
         data |-> m.first.data,
         record_latitude |-> report_latitude,
         record_longitude |-> report_longitude,
         geo_filter |-> [type |-> "Point",
                         coordinates |-> <<report_longitude, report_latitude>>,
                         distance |-> "1m"]]

\* grid with the cells of `cells` set to the character ch
MarkGrid_KeepFirst(g, cells, ch) ==
    [r \in DOMAIN g |->
        [c \in DOMAIN g[r] |->
            IF <<r - 1, c - 1>> \in cells /\ g[r][c] = Space THEN ch ELSE g[r][c]]]

MarkGrid(g, cells, ch) ==
    [r \in DOMAIN g |->
        [c \in DOMAIN g[r] |-> IF <<r - 1, c - 1>> \in cells THEN ch ELSE g[r][c]]]

\* a store that is lost
SetItem_Lost(d, key, value) == d

\* d[key] = value
SetItem(d, key, value) ==
    [k \in DOMAIN d \cup {key} |-> IF k = key THEN value ELSE d[k]]

\* the number of names the loop of line 90 unpacks every mark into
AsGridUnpackArity == 6

\* maxsize of functools.lru_cache() when the decorator is given no argument
lru_cache_maxsize == 128

\* the exception `raise GridNotPowerOfTwoException(*args)` ends with: the class
\* takes two arguments, and a call with another number of them is a TypeError
RaiseGridNotPowerOfTwo(args) ==
    IF Len(args) = GridNotPowerOfTwoExceptionArity
    THEN "GridNotPowerOfTwoException"
    ELSE "TypeError"

\* the outcome of lines 73-77 for a grid_resolution: the exception, or "none"
GridCheck(resolution) ==
    IF resolution = 0 THEN "ZeroDivisionError"
    ELSE IF ~is_power_of_two(FloorDiv(TileSize, resolution))
         THEN RaiseGridNotPowerOfTwo(<<FloorDiv(TileSize, resolution)>>)
         ELSE "none"

\* a grid of one row only
BlankGrid_OneRow(size) == [r \in 1..1 |-> [c \in 1..size |-> Space]]

\* the blank grid of line 81: size rows of size spaces
BlankGrid(size) == [r \in 1..size |-> [c \in 1..size |-> Space]]

\* as_grid is called: lines 73-88
AsGridCall(resolution, width) ==
    /\ pc = "ready"
    /\ grid_resolution' = resolution
    /\ point_width' = width
    /\ raised' = GridCheck(resolution)
    /\ IF raised' = "none"
       THEN /\ grid_size' = FloorDiv(TileSize, resolution)
            /\ grid' = BlankGrid(grid_size')
            /\ pc' = "marking"
       ELSE /\ grid_size' = IF resolution = 0 THEN 0 ELSE FloorDiv(TileSize, resolution)
            /\ grid' = <<>>
            /\ pc' = "raised"
    /\ keys' = <<"">>
    /\ data' = <<>>
    /\ point_id' = 0
    /\ marks' = <<>>
    /\ UNCHANGED <<fn_vars, request_vars, cache_vars, fork_vars>>

\* one turn of the loop of lines 90-136 for the mark m
AsGridMark(m) ==
    /\ pc = "marking"
    /\ Len(marks) < MaxMarks
    /\ marks' = Append(marks, m)
    /\ LET cells == to_mark(m, grid_size, point_width)
           next == NextPointId(point_id)
       IN  IF cells # {}
           THEN /\ point_id' = point_id + 1
                /\ grid' = MarkGrid(grid, cells, next[2])
                /\ keys' = Append(keys, next[1])
                /\ data' = SetItem(data, next[1], PointData(m))
           ELSE UNCHANGED <<point_id, grid, keys, data>>
    /\ UNCHANGED <<pc, grid_resolution, point_width, grid_size, raised>>
    /\ UNCHANGED <<fn_vars, request_vars, cache_vars, fork_vars>>

\* get_marks is exhausted: lines 138-143
AsGridReturn ==
    /\ pc = "marking"
    /\ pc' = "returned"
    /\ UNCHANGED <<grid_resolution, point_width, grid_size, grid, keys, data,
                   point_id, marks, raised>>
    /\ UNCHANGED <<fn_vars, request_vars, cache_vars, fork_vars>>

AsGridInit ==
    /\ pc = "ready"
    /\ grid_resolution = 0
    /\ point_width = 0
    /\ grid_size = 0
    /\ grid = <<>>
    /\ keys = <<>>
    /\ data = <<>>
    /\ point_id = 0
    /\ marks = <<>>
    /\ raised = "none"

FnInit ==
    /\ yielded = <<>>
    /\ call = [fn |-> "none"]
    /\ result = "none"

\* Python's optional values: None, and a value that is not None
None == <<>>

Some(value) == <<value>>

RequestInit ==
    /\ request = [request_type |-> "none", args |-> <<>>]
    /\ rpc = "idle"
    /\ kwargs = None
    /\ searched = FALSE
    /\ params = None
    /\ response = "none"
    /\ error = "none"

\* the threads that call PointCache.get_point
Threads == 1..MaxThreads

CacheInit ==
    /\ cached_fn = "none"
    /\ lru = <<>>
    /\ ever_computed = {}
    /\ cache = <<>>
    /\ tpc = [t \in Threads |-> "idle"]
    /\ tkey = [t \in Threads |-> <<>>]
    /\ tvalue = [t \in Threads |-> None]
    /\ returned = [t \in Threads |-> None]

ForkInit ==
    /\ host = "none"
    /\ app_client = <<>>
    /\ search_log = {}

vars == <<pc, grid_resolution, point_width, grid_size, grid, keys, data, point_id,
          marks, raised, yielded, call, result,
          request, rpc, kwargs, searched, params, response, error,
          cached_fn, lru, ever_computed, cache, tpc, tkey, tvalue, returned,
          host, app_client, search_log>>

Init == AsGridInit /\ FnInit /\ RequestInit /\ CacheInit /\ ForkInit

Next ==
    \/ \E resolution \in GridResolutions, width \in 0..MaxPointWidth :
           AsGridCall(resolution, width)
    \/ \E m \in Marks(grid_size) : AsGridMark(m)
    \/ AsGridReturn

Spec == Init /\ [][Next]_vars

-----------------------------------------------------------------------------
(* The point id generator on its own *)

\* next(point_id_generator): one turn of the loop of lines 326-332
GeneratorNext ==
    /\ point_id < MaxPointId
    /\ point_id' = point_id + 1
    /\ yielded' = Append(yielded, NextPointId(point_id))
    /\ UNCHANGED <<pc, grid_resolution, point_width, grid_size, grid, keys, data,
                   marks, raised, call, result>>
    /\ UNCHANGED <<request_vars, cache_vars, fork_vars>>

NextIdGen == GeneratorNext

SpecIdGen == Init /\ [][NextIdGen]_vars

-----------------------------------------------------------------------------
(* GriddedTile.assign_colour *)

\* int(math.exp(i)) for i = 0, 1, ..., 11
ExpFloor == <<1, 2, 7, 20, 54, 148, 403, 1096, 2980, 8103, 22026, 59874>>

\* the thresholds int(e^1), int(e^2), ...
Thresholds_FromE(range_size) == [i \in 1..range_size |-> ExpFloor[i + 1]]

\* thresholds = [int(math.exp(i)) for i in range(range_size)]
Thresholds(range_size) == [i \in 1..range_size |-> ExpFloor[i]]

\* colours = list(cold_colour.range_to(hot_colour, range_size + 1)): a colour
\* of the ramp is modelled by its position in it, 0 the cold end
Colours(range_size) == [i \in 1..(range_size + 1) |-> i - 1]

\* bisect.bisect_right(a, x): the insertion point after the entries equal to x
bisect_right(a, x) == Cardinality({i \in DOMAIN a : a[i] <= x})

\* bisect.bisect_left(a, x) on a sorted list: the number of entries below x
bisect_left(a, x) == Cardinality({i \in DOMAIN a : a[i] < x})

assign_colour(count, range_size) ==
    IF count = 0 THEN "None"
    ELSE Colours(range_size)[bisect_left(Thresholds(range_size), count) + 1]

-----------------------------------------------------------------------------
(* The pure helpers applied to inputs *)

CallGetPointsToMark(x, y, width) ==
    /\ call.fn = "none"
    /\ call' = [fn |-> "get_points_to_mark", x |-> x, y |-> y, point_width |-> width]
    /\ result' = get_points_to_mark(x, y, width)
    /\ UNCHANGED <<as_grid_vars, yielded, request_vars, cache_vars, fork_vars>>

CallAssignColour(count, range_size) ==
    /\ call.fn = "none"
    /\ call' = [fn |-> "assign_colour", count |-> count, range_size |-> range_size]
    /\ result' = assign_colour(count, range_size)
    /\ UNCHANGED <<as_grid_vars, yielded, request_vars, cache_vars, fork_vars>>

-----------------------------------------------------------------------------
(* maps.parameters: the request's query args *)

\* what a parser returns, or the exception it raises
Ok(value) == [raised |-> "none", value |-> value]

Raise(exception) == [raised |-> exception, value |-> None]

Whitespace == {" ", "\t", "\n"}

RECURSIVE lstrip(_)
lstrip(text) ==
    IF text # <<>> /\ Head(text) \in Whitespace THEN lstrip(Tail(text)) ELSE text

RECURSIVE rstrip(_)
rstrip(text) ==
    IF text # <<>> /\ text[Len(text)] \in Whitespace
    THEN rstrip(SubSeq(text, 1, Len(text) - 1))
    ELSE text

\* text.strip()
strip(text) == rstrip(lstrip(text))

\* int(text) of a string of decimal digits
int(text) == ParseNumber(text, 0)

\* extract(name, default, parser): `parsed` is parser(args[name]), evaluated
\* only when the arg is present
extract(args, name, default, parsed) ==
    IF name \in DOMAIN args THEN parsed ELSE default

\* json.loads of the raw `search` values a request carries
json_loads(raw) ==
    CASE raw = "{}" -> <<>>
      [] raw = "{\"term\": 1}" -> [term |-> 1]

\* parse_query_body of the raw `query` values a request carries, each named
\* by the JSON document it is the gzipped base64 encoding of
parse_query_body(raw) ==
    CASE raw = "{}" -> <<>>
      [] raw = "{search, not_indexes}" ->
             [search |-> <<>>, not_indexes |-> <<":", "(">>]
      [] raw = "{indexes: [a]}" -> [indexes |-> <<<<"a">>>>]
      [] raw = "{indexes: [], search}" -> [indexes |-> <<>>, search |-> <<>>]
      [] raw = "{indexes: [ a, b ], search}" ->
             [indexes |-> <<<<" ", "a">>, <<"b", " ">>>>, search |-> [term |-> 1]]

\* bool(value) of an optional dict
Truthy(value) == value # None /\ DOMAIN value[1] # {}

HexDigits == {"0", "1", "2", "3", "4", "5", "6", "7", "8", "9",
              "a", "b", "c", "d", "e", "f"}

\* parse_colour: a '#' and 3 or 6 hex digits, or InvalidColour
parse_colour(value) ==
    IF /\ Len(value) \in {4, 7}
       /\ value[1] = "#"
       /\ \A i \in 2..Len(value) : value[i] \in HexDigits
    THEN Ok(value)
    ELSE Raise("InvalidColour")

\* lines 78-89: the query body, when truthy, replaces both values
SearchParamsOf(indexes, search_body, query_body) ==
    IF Truthy(query_body) /\ "search" \notin DOMAIN query_body[1]
    THEN Raise("KeyError")
    ELSE IF Truthy(query_body) /\ "indexes" \notin DOMAIN query_body[1]
    THEN Raise("KeyError")
    ELSE LET chosen == IF Truthy(query_body)
                       THEN Some(query_body[1].indexes)
                       ELSE indexes
             body == IF Truthy(query_body)
                     THEN Some(query_body[1].search)
                     ELSE search_body
         IN  IF chosen = None THEN Raise("MissingIndex")
             ELSE Ok([indexes |-> [i \in DOMAIN chosen[1] |-> strip(chosen[1][i])],
                      search_body |-> body])

extract_search_params(args) ==
    SearchParamsOf(
        extract(args, "indexes", None, Some(split(args.indexes, ","))),
        extract(args, "search", None, Some(json_loads(args.search))),
        extract(args, "query", None, Some(parse_query_body(args.query))))

\* the colour args of a dict of style parameters: the first that fails to
\* parse ends the extraction
ColourParams(args, first, first_default, second, second_default) ==
    LET one == extract(args, first, Ok(first_default), parse_colour(args[first]))
        two == extract(args, second, Ok(second_default), parse_colour(args[second]))
    IN  IF one.raised # "none" THEN one
        ELSE IF two.raised # "none" THEN two
        ELSE Ok(<<one.value, two.value>>)

extract_plot_parameters(args) ==
    ColourParams(args, "point_colour", <<"#", "e", "e", "0", "0", "0", "0">>,
                       "border_colour", <<"#", "f", "f", "f", "f", "f", "f">>)

extract_gridded_parameters(args) ==
    ColourParams(args, "cold_colour", <<"#", "f", "4", "f", "1", "1", "a">>,
                       "hot_colour", <<"#", "f", "0", "2", "3", "2", "3">>)

extract_heatmap_parameters(args) ==
    ColourParams(args, "cold_colour", <<"#", "0", "0", "0", "0", "e", "e">>,
                       "hot_colour", <<"#", "e", "e", "0", "0", "0", "0">>)

extract_plot_utf_grid_params(args) ==
    Ok([grid_resolution |->
            extract(args, "grid_resolution", 4, int(args.grid_resolution)),
        point_width |-> extract(args, "point_width", 3, int(args.point_width))])

extract_gridded_utf_grid_params(args) ==
    Ok([grid_resolution |->
            extract(args, "grid_resolution", 8, int(args.grid_resolution)),
        point_width |-> extract(args, "point_width", 1, int(args.point_width))])

-----------------------------------------------------------------------------
(* maps.web.render_tile *)

tile_styles == {"plot", "gridded", "heatmap"}

\* tile_parameters[style][request_type](): the heatmap has no UTFGrid
\* extractor, and calling the None in its place is a TypeError
tile_parameters(style, request_type, args) ==
    CASE style = "plot" /\ request_type = "png" -> extract_plot_parameters(args)
      [] style = "plot" /\ request_type = "grid.json" ->
             extract_plot_utf_grid_params(args)
      [] style = "gridded" /\ request_type = "png" ->
             extract_gridded_parameters(args)
      [] style = "gridded" /\ request_type = "grid.json" ->
             extract_gridded_utf_grid_params(args)
      [] style = "heatmap" /\ request_type = "png" ->
             extract_heatmap_parameters(args)
      [] style = "heatmap" /\ request_type = "grid.json" -> Raise("TypeError")

\* the values each query arg takes in the requests considered; <<>> is the
\* arg left out
ArgOptions ==
    [style : {None, Some("plot"), Some("gridded"), Some("heatmap"), Some("choropleth")},
     indexes : {None, Some(<<>>), Some(<<"a">>), Some(<<" ", "a", ",", "b", " ">>)},
     search : {None, Some("{\"term\": 1}")},
     query : {None, Some("{}"), Some("{search, not_indexes}"),
              Some("{indexes: [a]}"), Some("{indexes: [], search}"),
              Some("{indexes: [ a, b ], search}")},
     point_colour : {None, Some(<<"#", "0", "f", "0">>), Some(<<"#", "z", "z", "z">>)},
     cold_colour : {None, Some(<<"#", "f", "f", "f", "f", "f", "f", "f">>)},
     grid_resolution : {None, Some(<<"3">>), Some(<<"0">>), Some(<<"2", "0", "0">>)}]

\* request.args of a choice of options: the args that are present
ArgsOf(options) ==
    [name \in {n \in DOMAIN options : options[n] # None} |-> options[name][1]]

RequestTypes == {"png", "grid.json", "jpg"}

\* request.args.get('style', PlotTile.style)
StyleOf(args) == extract(args, "style", "plot", args.style)

\* the handler ends with the exception
Fail(exception) ==
    /\ error' = exception
    /\ rpc' = "failed"

\* flask routes a request to render_tile
ReceiveRequest ==
    /\ rpc = "idle"
    /\ \E request_type \in RequestTypes, options \in ArgOptions :
           request' = [request_type |-> request_type, args |-> ArgsOf(options)]
    /\ rpc' = "request_type"
    /\ UNCHANGED <<kwargs, searched, params, response, error>>
    /\ UNCHANGED <<as_grid_vars, fn_vars, cache_vars, fork_vars>>

\* lines 105-106
CheckRequestType ==
    /\ rpc = "request_type"
    /\ IF request.request_type # "png" /\ request.request_type # "grid.json"
       THEN Fail("InvalidRequestType")
       ELSE rpc' = "style" /\ error' = error
    /\ UNCHANGED <<request, kwargs, searched, params, response>>
    /\ UNCHANGED <<as_grid_vars, fn_vars, cache_vars, fork_vars>>

\* lines 109-113
CheckStyle ==
    /\ rpc = "style"
    /\ IF StyleOf(request.args) \notin tile_styles
       THEN Fail("InvalidStyle")
       ELSE rpc' = "search_params" /\ error' = error
    /\ UNCHANGED <<request, kwargs, searched, params, response>>
    /\ UNCHANGED <<as_grid_vars, fn_vars, cache_vars, fork_vars>>

\* line 116, the arguments of the call of search
ExtractSearchParams ==
    /\ rpc = "search_params"
    /\ LET extracted == extract_search_params(request.args)
       IN  IF extracted.raised # "none"
           THEN Fail(extracted.raised) /\ kwargs' = kwargs
           ELSE /\ kwargs' = Some(extracted.value)
                /\ rpc' = "search"
                /\ error' = error
    /\ UNCHANGED <<request, searched, params, response>>
    /\ UNCHANGED <<as_grid_vars, fn_vars, cache_vars, fork_vars>>

\* line 116, the call of search
Search ==
    /\ rpc = "search"
    /\ searched' = TRUE
    /\ rpc' = "params"
    /\ UNCHANGED <<request, kwargs, params, response, error>>
    /\ UNCHANGED <<as_grid_vars, fn_vars, cache_vars, fork_vars>>

\* line 119
ExtractStyleParams ==
    /\ rpc = "params"
    /\ LET extracted == tile_parameters(StyleOf(request.args),
                                        request.request_type, request.args)
       IN  IF extracted.raised # "none"
           THEN Fail(extracted.raised) /\ params' = params
           ELSE /\ params' = Some(extracted.value)
                /\ rpc' = "render"
                /\ error' = error
    /\ UNCHANGED <<request, kwargs, searched, response>>
    /\ UNCHANGED <<as_grid_vars, fn_vars, cache_vars, fork_vars>>

\* lines 122-127: as_image, or as_grid: that of HeatmapTile returns {}, that
\* of the other styles checks the grid size
Render ==
    /\ rpc = "render"
    /\ IF request.request_type = "png"
       THEN /\ response' = "png"
            /\ rpc' = "done"
            /\ error' = error
       ELSE IF StyleOf(request.args) = "heatmap"
       THEN /\ response' = "{}"
            /\ rpc' = "done"
            /\ error' = error
       ELSE LET checked == GridCheck(params[1].grid_resolution)
            IN  IF checked # "none"
                THEN Fail(checked) /\ response' = response
                ELSE /\ response' = "grid.json"
                     /\ rpc' = "done"
                     /\ error' = error
    /\ UNCHANGED <<request, kwargs, searched, params>>
    /\ UNCHANGED <<as_grid_vars, fn_vars, cache_vars, fork_vars>>

NextRequest ==
    \/ ReceiveRequest
    \/ CheckRequestType
    \/ CheckStyle
    \/ ExtractSearchParams
    \/ Search
    \/ ExtractStyleParams
    \/ Render

SpecRequest == Init /\ [][NextRequest]_vars

-----------------------------------------------------------------------------
(* Tile.calculate_precision *)

min(a, b) == IF a <= b THEN a ELSE b

max(a, b) == IF a >= b THEN a ELSE b

\* a clamp with min and max the wrong way round
clamp_Swapped(value, minimum, maximum) == min(minimum, max(value, maximum))

\* maps.utils.clamp
clamp(value, minimum, maximum) == max(minimum, min(value, maximum))

\* the dict of lines 397-418, by z + 1
PrecisionTable ==
    <<3, 3, 4, 4, 5, 5, 6, 6, 7, 7, 8, 9, 9, 10, 10, 11, 11, 11, 12, 12>>

calculate_precision(z) == PrecisionTable[clamp(z, 0, 19) + 1]

-----------------------------------------------------------------------------
(* get_marks of PlotTile and GriddedTile *)

\* Positions in a tile are counted in halves of a grid cell. translate_to_tile
\* is not computed: every point carries the position it gives for the point,
\* inside the grid or just beyond its left and right edges.
Positions(size) == {-1, 0, 1, 2 * size - 1, 2 * size} \X {1, 2}

\* the BucketResult objects search returns (query.py lines 15-27), bbox being
\* geohash.bbox(key)
BucketResults(size) ==
    [class : {"BucketResult"}, centre_latitude : {50}, centre_longitude : {8},
     total : {1, 2}, first_record : Records,
     bbox : {[n |-> 51, s |-> 49, e |-> 9, w |-> 7]},
     position : Positions(size)]

\* the 4-tuples (latitude, longitude, total, first) of the docstrings
PointTuples(size) ==
    [class : {"tuple"}, latitude : {50}, longitude : {8}, total : {1, 2},
     first : Records, position : Positions(size)]

\* the lists of at most MaxBuckets points, all of one class
PointLists(size) ==
    UNION {[1..n -> BucketResults(size)] \cup [1..n -> PointTuples(size)] :
               n \in 0..MaxBuckets}

\* the grid_resolution values get_marks is applied with
GetMarksResolutions == {64, 128}

\* the record of another specimen
OtherRecord ==
    [meta |-> [geo |-> <<"5", "2", ",", "8">>],
     data |-> Dict(<<<<KeyA, Wrap(Value("y"))>>>>)]

\* the 4-tuples group_points is applied to: a point of one record and a point
\* of two, with different first records
GroupedPoints(size) ==
    {[class |-> "tuple", latitude |-> 50, longitude |-> 8, total |-> 1,
      first |-> CHOOSE record \in Records : TRUE, position |-> position] :
         position \in Positions(size)}
    \cup {[class |-> "tuple", latitude |-> 50, longitude |-> 8, total |-> 2,
           first |-> OtherRecord, position |-> position] :
              position \in Positions(size)}

\* the grid_resolution group_points is applied with: a grid of two cells a side
GroupPointsResolution == 128

translate_to_tile(point) == point.position

\* BucketResult.as_geo_json_bbox
as_geo_json_bbox(bucket) ==
    [type |-> "Polygon",
     coordinates |-> <<<<<<bucket.bbox.w, bucket.bbox.n>>,
                         <<bucket.bbox.e, bucket.bbox.n>>,
                         <<bucket.bbox.e, bucket.bbox.s>>,
                         <<bucket.bbox.w, bucket.bbox.s>>>>>>]

\* the point data PlotTile.get_marks builds for a bucket: lines 109-131
PlotPointData(bucket) ==
    LET geo == split(bucket.first_record.meta.geo, ",")
    IN  IF bucket.total = 1
        THEN [count |-> bucket.total,
              data |-> bucket.first_record.data,
              record_latitude |-> float(geo[1]),
              record_longitude |-> float(geo[2])]
        ELSE [count |-> bucket.total,
              data |-> bucket.first_record.data,
              record_latitude |-> bucket.centre_latitude,
              record_longitude |-> bucket.centre_longitude,
              geo_filter |-> as_geo_json_bbox(bucket)]

\* PlotTile.get_marks: a 3-tuple (point_data, x, y) for every bucket; a point
\* that is no BucketResult has no centre_latitude
PlotTile_get_marks(buckets) ==
    IF buckets # <<>> /\ buckets[1].class # "BucketResult"
    THEN Raise("AttributeError")
    ELSE Ok([i \in 1..Len(buckets) |->
                [point_data |-> PlotPointData(buckets[i]),
                 x |-> translate_to_tile(buckets[i])[1],
                 y |-> translate_to_tile(buckets[i])[2]]])

RECURSIVE GroupInto(_, _, _)
\* the loop of lines 71-87 of group_points: grid[<<y, x>>] is the cell's
\* [total, first]
GroupInto(cells, points, size) ==
    IF points = <<>> THEN cells
    ELSE LET point == Head(points)
             x == translate_to_tile(point)[1]
             y == translate_to_tile(point)[2]
         IN  IF x < 0 \/ x >= 2 * size \/ y < 0 \/ y >= 2 * size
             THEN GroupInto(cells, Tail(points), size)
             ELSE GroupInto(
                      [cells EXCEPT ![<<y \div 2, x \div 2>>] =
                          [total |-> @.total + point.total,
                           first |-> IF @.first = None THEN Some(point.first)
                                                       ELSE @.first]],
                      Tail(points), size)

\* the blank grid of lines 62-68: every cell is [0, None]
BlankCells(size) ==
    [cell \in (0..(size - 1)) \X (0..(size - 1)) |-> [total |-> 0, first |-> None]]

\* every point counts as one record
group_points_CountPoints(points, size) ==
    GroupInto(BlankCells(size),
              [i \in 1..Len(points) |-> [points[i] EXCEPT !.total = 1]], size)

\* the points are taken last to first
group_points_Reversed(points, size) ==
    GroupInto(BlankCells(size),
              [i \in 1..Len(points) |-> points[Len(points) + 1 - i]], size)

group_points(points, size) == GroupInto(BlankCells(size), points, size)

\* the cells taken column by column
RowMajor_ByColumn(size) ==
    [k \in 1..(size * size) |-> <<(k - 1) % size, (k - 1) \div size>>]

\* the cells <<y, x>> in the order of the loops of lines 151-152
RowMajor(size) ==
    [k \in 1..(size * size) |-> <<(k - 1) \div size, (k - 1) % size>>]

\* GriddedTile.get_marks: a 6-tuple for every cell with a total; a point that
\* is no 4-tuple cannot be unpacked
GriddedTile_get_marks(points, size) ==
    IF points # <<>> /\ points[1].class # "tuple"
    THEN Raise("TypeError")
    ELSE LET cells == group_points(points, size)
             NonEmpty(cell) == cells[cell].total # 0
             marked == SelectSeq(RowMajor(size), NonEmpty)
         IN  Ok([i \in 1..Len(marked) |->
                    LET first == cells[marked[i]].first[1]
                        geo == split(first.meta.geo, ",")
                    IN  [latitude |-> float(geo[1]),
                         longitude |-> float(geo[2]),
                         x |-> marked[i][2],
                         y |-> marked[i][1],
                         total |-> cells[marked[i]].total,
                         first |-> first]])

get_marks(style, points, resolution) ==
    IF style = "plot" THEN PlotTile_get_marks(points)
    ELSE GriddedTile_get_marks(points, FloorDiv(TileSize, resolution))

-----------------------------------------------------------------------------
(* Tile.longitude_to_x *)

\* the longitude is used as it is, out of range or not
longitude_to_x_NoWrap(longitude, z) == Fraction((longitude + 180) * 2^z, 360)

\* Tile.longitude_to_x of a tile of zoom level z; % is Python's, whose result
\* has the sign of the divisor
longitude_to_x(longitude, z) ==
    LET wrapped == IF longitude < -180 \/ longitude > 180
                   THEN ((longitude + 180) % 360) - 180
                   ELSE longitude
    IN  Fraction((wrapped + 180) * 2^z, 360)

-----------------------------------------------------------------------------
(* PlotTile.render *)

\* the number of colours of PlotTile.colours
PlotColoursLength == 360

\* self.colours = list(Color('violet').range_to(Color('red'), 360)): a colour
\* of the ramp is modelled by its place in it
PlotColours == [i \in 1..PlotColoursLength |-> [hex |-> "violet..red", step |-> i - 1]]

\* the colours a request asks for, as parse_colour returns them
RequestColours == {[hex |-> "#ee0000", step |-> 0], [hex |-> "#ffffff", step |-> 0]}

\* self.colours[int(longitude + 180)] for a longitude of -180 or more, so
\* that the index is not negative
choose_colour(longitude) ==
    LET index == longitude + 180
    IN  IF index < PlotColoursLength THEN Ok(PlotColours[index + 1])
        ELSE Raise("IndexError")

\* the whole longitudes the centre of a rendered bucket has
PlotLongitudes == {-180, -1, 0, 179, 180}

\* the buckets render is given
RenderBuckets ==
    [class : {"BucketResult"}, centre_latitude : {50},
     centre_longitude : PlotLongitudes, total : {1, 2}]

RECURSIVE RenderLoop(_, _, _, _)
\* the loop of lines 63-79: the calls of draw_point made so far are `drawn`,
\* point_colour is the local the loop assigns to
RenderLoop(buckets, point_colour, border_colour, drawn) ==
    IF buckets = <<>> THEN Ok(drawn)
    ELSE LET chosen == choose_colour(Head(buckets).centre_longitude)
         IN  IF chosen.raised # "none" THEN Raise(chosen.raised)
             ELSE RenderLoop(Tail(buckets), chosen.value, border_colour,
                             Append(drawn, [colour |-> chosen.value.hex,
                                            colour_step |-> chosen.value.step,
                                            border_colour |-> border_colour.hex]))

\* PlotTile.render: the draw_point calls it makes, or the exception
PlotTile_render(buckets, point_colour, border_colour) ==
    RenderLoop(buckets, point_colour, border_colour, <<>>)

-----------------------------------------------------------------------------
(* maps.query.search and BucketResult.__init__ *)

\* the _source of the first hit of a bucket
HitSource == [meta |-> [geo |-> <<"5", "1", ",", "7">>]]

\* the buckets of a response: one as the aggregation defines it, and the
\* ones that lack key, doc_count, first, the hit, or the hit's _source
ResponseBuckets ==
    {[key |-> "u10", doc_count |-> 2,
      first |-> [hits |-> [hits |-> <<[_source |-> HitSource]>>]]],
     [doc_count |-> 2,
      first |-> [hits |-> [hits |-> <<[_source |-> HitSource]>>]]],
     [key |-> "u10",
      first |-> [hits |-> [hits |-> <<[_source |-> HitSource]>>]]],
     [key |-> "u10", doc_count |-> 2],
     [key |-> "u10", doc_count |-> 2, first |-> [hits |-> [hits |-> <<>>]]],
     [key |-> "u10", doc_count |-> 2,
      first |-> [hits |-> [hits |-> <<[_id |-> "1"]>>]]]}

\* what the backing store does with the query: it cannot be reached, or it
\* answers, with or without aggregations, grid and buckets
Upstreams ==
    {[reachable |-> FALSE, response |-> [took |-> 1]],
     [reachable |-> TRUE, response |-> [took |-> 1]],
     [reachable |-> TRUE, response |-> [took |-> 1, aggregations |-> [other |-> 1]]],
     [reachable |-> TRUE,
      response |-> [took |-> 1, aggregations |-> [grid |-> [doc_count |-> 1]]]]}
    \cup {[reachable |-> TRUE,
           response |-> [took |-> 1, aggregations |-> [grid |-> [buckets |-> buckets]]]] :
              buckets \in UNION {[1..n -> ResponseBuckets] : n \in 0..MaxBuckets}}

\* BucketResult(bucket): lines 19-27, the subscripts in the order they are made
BucketResult(bucket) ==
    IF "key" \notin DOMAIN bucket THEN Raise("KeyError")
    ELSE IF "doc_count" \notin DOMAIN bucket THEN Raise("KeyError")
    ELSE IF "first" \notin DOMAIN bucket THEN Raise("KeyError")
    ELSE IF bucket.first.hits.hits = <<>> THEN Raise("IndexError")
    ELSE IF "_source" \notin DOMAIN bucket.first.hits.hits[1] THEN Raise("KeyError")
    ELSE Ok([class |-> "BucketResult",
             key |-> bucket.key,
             total |-> bucket.doc_count,
             first_record |-> bucket.first.hits.hits[1]._source])

RECURSIVE BucketResultList(_, _)
\* the list comprehension of line 113: the first bucket that raises ends it
BucketResultList(buckets, made) ==
    IF buckets = <<>> THEN Ok(made)
    ELSE LET bucket_result == BucketResult(Head(buckets))
         IN  IF bucket_result.raised # "none" THEN Raise(bucket_result.raised)
             ELSE BucketResultList(Tail(buckets), Append(made, bucket_result.value))

\* search: s.execute() of line 110 raises the client's ConnectionError when no
\* node answers; result.aggs.to_dict() is the response's aggregations, {}
\* when it has none
search(upstream) ==
    IF ~upstream.reachable THEN Raise("ConnectionError")
    ELSE IF "aggregations" \notin DOMAIN upstream.response THEN Raise("KeyError")
    ELSE IF "grid" \notin DOMAIN upstream.response.aggregations THEN Raise("KeyError")
    ELSE IF "buckets" \notin DOMAIN upstream.response.aggregations.grid
         THEN Raise("KeyError")
    ELSE BucketResultList(upstream.response.aggregations.grid.buckets, <<>>)

-----------------------------------------------------------------------------
(* Tile.translate, the corners of a tile and the bounding box of search *)

\* Latitudes are held on the web mercator scale: the latitude
\* degrees(atan(sinh(pi * t))) is held as t, which grows with it; the equator
\* is 0 and the upper edge of the map 1. Longitudes are held in degrees.

\* the latitude 85.0511 on that scale, cut to four places to keep the products
\* small: asinh(tan(85.0511 degrees)) / pi = 0.9999981...; the upper edge of
\* the map, 1, is the latitude 85.05113. No corner of a tile considered lies
\* between 0.9999 and 1.
MercatorLimit == Fraction(9999, 10000)

LongitudeLimit == Fraction(180, 1)

\* the tiles of the zoom levels 0..MaxCornerZ
Tiles ==
    UNION {[x : 0..(2^z - 1), y : 0..(2^z - 1), z : {z}] : z \in 0..MaxCornerZ}

\* the values of `extra`: 0 and 0.01
Extras == {Fraction(0, 1), Fraction(1, 100)}

\* Tile.translate(x_extra, y_extra): (latitude, longitude)
translate(tile, x_extra, y_extra) ==
    LET zoom == Fraction(2^tile.z, 1)
        one == Fraction(1, 1)
        longitude_degrees ==
            FracSub(FracMul(FracMul(FracAdd(Fraction(tile.x, 1), x_extra),
                                    [n |-> zoom.d, d |-> zoom.n]),
                            Fraction(360, 1)),
                    Fraction(180, 1))
        latitude ==
            FracSub(one, FracMul(FracMul(Fraction(2, 1),
                                         FracAdd(Fraction(tile.y, 1), y_extra)),
                                 [n |-> zoom.d, d |-> zoom.n]))
    IN  <<latitude, longitude_degrees>>

middle(tile) == translate(tile, Fraction(1, 2), Fraction(1, 2))

bottom_left(tile, extra) ==
    translate(tile, FracNeg(extra), FracAdd(Fraction(1, 1), extra))

bottom_right(tile, extra) ==
    translate(tile, FracAdd(Fraction(1, 1), extra), FracAdd(Fraction(1, 1), extra))

\* the corner moves into the tile
top_left_Inward(tile, extra) == translate(tile, extra, extra)

top_left(tile, extra) == translate(tile, FracNeg(extra), FracNeg(extra))

top_right(tile, extra) ==
    translate(tile, FracAdd(Fraction(1, 1), extra), FracNeg(extra))

\* maps.utils.clamp on floats
FracClamp(value, minimum, maximum) == FracMax(minimum, FracMin(value, maximum))

\* maps.utils.lat_lon_clamp
lat_lon_clamp(pair) ==
    <<FracClamp(pair[1], FracNeg(MercatorLimit), MercatorLimit),
      FracClamp(pair[2], FracNeg(LongitudeLimit), LongitudeLimit)>>

\* the bounding_box of search, lines 91-99: the pairs the two strings are
\* formatted from
bounding_box(tile) ==
    [top_left |-> lat_lon_clamp(top_left(tile, Fraction(1, 100))),
     bottom_right |-> lat_lon_clamp(bottom_right(tile, Fraction(1, 100)))]

\* the corner of the given name
Corner(name, tile, extra) ==
    CASE name = "top_left" -> top_left(tile, extra)
      [] name = "top_right" -> top_right(tile, extra)
      [] name = "bottom_left" -> bottom_left(tile, extra)
      [] name = "bottom_right" -> bottom_right(tile, extra)
      [] name = "middle" -> middle(tile)

-----------------------------------------------------------------------------
(* More pure helpers applied to inputs *)

CallRebuildData ==
    /\ call.fn = "none"
    /\ \E parsed_data \in ParsedData :
           /\ call' = [fn |-> "rebuild_data", parsed_data |-> parsed_data]
           /\ result' = rebuild_data(parsed_data)
    /\ UNCHANGED <<as_grid_vars, yielded, request_vars, cache_vars, fork_vars>>

CallCalculatePrecision(z) ==
    /\ call.fn = "none"
    /\ call' = [fn |-> "calculate_precision", z |-> z]
    /\ result' = calculate_precision(z)
    /\ UNCHANGED <<as_grid_vars, yielded, request_vars, cache_vars, fork_vars>>

CallLongitudeToX ==
    /\ call.fn = "none"
    /\ \E longitude \in (0 - MaxLongitude)..MaxLongitude, z \in 0..MaxTileZ :
           /\ call' = [fn |-> "longitude_to_x", longitude |-> longitude, z |-> z]
           /\ result' = longitude_to_x(longitude, z)
    /\ UNCHANGED <<as_grid_vars, yielded, request_vars, cache_vars, fork_vars>>

CallPlotRender ==
    /\ call.fn = "none"
    /\ \E n \in 0..MaxBuckets :
           \E buckets \in [1..n -> RenderBuckets], point_colour \in RequestColours,
              border_colour \in RequestColours :
               /\ call' = [fn |-> "PlotTile.render", buckets |-> buckets,
                           point_colour |-> point_colour,
                           border_colour |-> border_colour]
               /\ result' = PlotTile_render(buckets, point_colour, border_colour)
    /\ UNCHANGED <<as_grid_vars, yielded, request_vars, cache_vars, fork_vars>>

CallSearch ==
    /\ call.fn = "none"
    /\ \E upstream \in Upstreams :
           /\ call' = [fn |-> "search", upstream |-> upstream]
           /\ result' = search(upstream)
    /\ UNCHANGED <<as_grid_vars, yielded, request_vars, cache_vars, fork_vars>>

CallGroupPoints ==
    /\ call.fn = "none"
    /\ LET size == FloorDiv(TileSize, GroupPointsResolution)
       IN  \E n \in 0..MaxBuckets :
               \E points \in [1..n -> GroupedPoints(size)] :
                   /\ call' = [fn |-> "group_points", points |-> points,
                               grid_resolution |-> GroupPointsResolution]
                   /\ result' = group_points(points, size)
    /\ UNCHANGED <<as_grid_vars, yielded, request_vars, cache_vars, fork_vars>>

CallCorner ==
    /\ call.fn = "none"
    /\ \E tile \in Tiles, extra \in Extras,
          name \in {"top_left", "top_right", "bottom_left", "bottom_right", "middle"} :
           /\ call' = [fn |-> "corner", name |-> name, tile |-> tile, extra |-> extra]
           /\ result' = Corner(name, tile, extra)
    /\ UNCHANGED <<as_grid_vars, yielded, request_vars, cache_vars, fork_vars>>

CallBoundingBox ==
    /\ call.fn = "none"
    /\ \E tile \in Tiles :
           /\ call' = [fn |-> "bounding_box", tile |-> tile]
           /\ result' = bounding_box(tile)
    /\ UNCHANGED <<as_grid_vars, yielded, request_vars, cache_vars, fork_vars>>

\* int(math.log(total)) for a whole total >= 1: the number of whole k >= 1
\* with e^k <= total, that is with int(e^k) < total, e^k not being whole
int_log(total) == Cardinality({k \in 1..11 : ExpFloor[k + 1] < total})

\* weight = clamp(int(math.log(bucket.total)), 1, 10)
heatmap_weight(total) == clamp(int_log(total), 1, 10)

\* the intensity, in tenths: 0, 0.1, ... 1
Intensities == 0..10

\* the alpha channel is one byte wide
AlphaRange == 0..255

\* int(255 * max(0, intensity - distance_to_center)) for the pixel (x, y),
\* where distance_to_center = sqrt(s) / (sqrt(2) * radius) and
\* s = (x - radius)^2 + (y - radius)^2, computed over the reals: the largest
\* whole k with k <= 255 * (tenths / 10 - distance_to_center), or 0 when
\* there is none
base_alpha(x, y, radius, tenths) ==
    LET s       == (x - radius) * (x - radius) + (y - radius) * (y - radius)
        fits(k) == /\ 255 * tenths >= 10 * k
                   /\ 2 * radius * radius * (255 * tenths - 10 * k) * (255 * tenths - 10 * k)
                          >= 2550 * 2550 * s
    IN  Cardinality({k \in AlphaRange \ {0} : fits(k)})

\* the body of draw_heatmap_point: the alpha handed to image.putpixel for every pixel
\* with alpha > 0; the other pixels of the new image are left alone
draw_heatmap_point_pixels(radius, weight, tenths) ==
    LET diameter == radius * 2
        alpha(x, y) == base_alpha(x, y, radius, tenths) * weight
        written == {pixel \in (0..(diameter - 1)) \X (0..(diameter - 1)) :
                        alpha(pixel[1], pixel[2]) > 0}
    IN  [pixel \in written |-> alpha(pixel[1], pixel[2])]

\* the totals of the buckets drawn: the least, and those around the powers
\* of e where the weight changes or is clamped
HeatmapTotals == {1, 2, 3, 8, 21, 149, 22027, 59875}

\* HeatmapTile.render for one bucket (lines 42-43)
CallDrawHeatmapPoint ==
    /\ call.fn = "none"
    /\ \E total \in HeatmapTotals, radius \in 1..MaxRadius, tenths \in Intensities :
           /\ call' = [fn |-> "draw_heatmap_point", total |-> total, radius |-> radius,
                       weight |-> heatmap_weight(total), intensity |-> tenths]
           /\ result' = Ok(draw_heatmap_point_pixels(radius, heatmap_weight(total), tenths))
    /\ UNCHANGED <<as_grid_vars, yielded, request_vars, cache_vars, fork_vars>>

CallGetMarks ==
    /\ call.fn = "none"
    /\ \E style \in {"plot", "gridded"}, resolution \in GetMarksResolutions :
           \E points \in PointLists(FloorDiv(TileSize, resolution)) :
               /\ call' = [fn |-> "get_marks", style |-> style, points |-> points,
                           grid_resolution |-> resolution]
               /\ result' = get_marks(style, points, resolution)
    /\ UNCHANGED <<as_grid_vars, yielded, request_vars, cache_vars, fork_vars>>

NextFn ==
    \/ \E x \in 0..MaxCoord, y \in 0..MaxCoord, width \in 0..MaxPointWidth :
           CallGetPointsToMark(x, y, width)
    \/ \E count \in 0..MaxCount, range_size \in 1..MaxRangeSize :
           CallAssignColour(count, range_size)
    \/ CallRebuildData
    \/ \E z \in (0 - MaxZoom)..MaxZoom : CallCalculatePrecision(z)
    \/ CallGetMarks
    \/ CallLongitudeToX
    \/ CallPlotRender
    \/ CallSearch
    \/ CallGroupPoints
    \/ CallCorner
    \/ CallBoundingBox
    \/ CallDrawHeatmapPoint

SpecFn == Init /\ [][NextFn]_vars

-----------------------------------------------------------------------------
(* GriddedTile.as_grid: Tile.as_grid over the marks of GriddedTile.get_marks *)

\* the point_width values of a gridded UTFGrid whose marks are a single cell:
\* 1, the default of extract_gridded_utf_grid_params, and 0
GriddedPointWidths == {0, 1}

\* as_grid is called on the points get_marks was given
GriddedAsGridCall ==
    /\ call.fn = "get_marks"
    /\ call.style = "gridded"
    /\ result.raised = "none"
    /\ \E width \in GriddedPointWidths : AsGridCall(call.grid_resolution, width)

\* one turn of the loop of line 90, for the next mark get_marks yields
GriddedAsGridMark ==
    /\ call.fn = "get_marks"
    /\ Len(marks) < Len(result.value)
    /\ AsGridMark(result.value[Len(marks) + 1])

\* get_marks has yielded every mark
GriddedAsGridReturn ==
    /\ call.fn = "get_marks"
    /\ Len(marks) = Len(result.value)
    /\ AsGridReturn

NextGridded ==
    \/ CallGetMarks
    \/ GriddedAsGridCall
    \/ GriddedAsGridMark
    \/ GriddedAsGridReturn

SpecGridded == Init /\ [][NextGridded]_vars

-----------------------------------------------------------------------------
(* maps.tiles.points: draw_point and draw_heatmap_point under lru_cache *)

\* the keys a cache holds
Cached(entries) == {entries[i] : i \in DOMAIN entries}

\* a hit: the key becomes the most recently used
Touch(entries, key) == SelectSeq(entries, LAMBDA k : k # key) \o <<key>>

\* a miss: the result is stored, and when the cache is full the least recently
\* used key makes room for it
Insert(entries, key) ==
    IF Len(entries) >= lru_cache_maxsize
    THEN Append(Tail(entries), key)
    ELSE Append(entries, key)

\* the cache after a call of the decorated function with the arguments `key`
lru_cache(entries, key) ==
    IF key \in Cached(entries) THEN Touch(entries, key) ELSE Insert(entries, key)

\* the keys a call is made with: the first key again, or one never seen; the
\* n-th key is the call whose radius argument is n
NextKeys == {1, Cardinality(ever_computed) + 1} \cap (1..MaxKeys)

CallCached(fn, key) ==
    /\ cached_fn \in {"none", fn}
    /\ cached_fn' = fn
    /\ lru' = lru_cache(lru, key)
    /\ ever_computed' = IF key \in Cached(lru)
                        THEN ever_computed
                        ELSE ever_computed \cup {key}
    /\ UNCHANGED <<as_grid_vars, fn_vars, request_vars, cache, tpc, tkey, tvalue,
                   returned, fork_vars>>

draw_point == \E key \in NextKeys : CallCached("draw_point", key)

draw_heatmap_point == \E key \in NextKeys : CallCached("draw_heatmap_point", key)

NextLru ==
    \/ draw_point
    \/ draw_heatmap_point

SpecLru == Init /\ [][NextLru]_vars

-----------------------------------------------------------------------------
(* maps.web: init_elasticsearch in a server that forks its workers *)

\* the master process
Master == 0

\* Elasticsearch(...): a client, known by the process that created it
Elasticsearch(process) == [created_in |-> process]

\* init_elasticsearch in the given process: app.client = Elasticsearch(...)
init_elasticsearch(clients, process) == SetItem(clients, process, Elasticsearch(process))

\* the module is imported by the master. Under uwsgi the name
\* init_elasticsearch is bound to the postfork object, elsewhere (lines 20-23)
\* to the function itself; the call of line 62 runs the function in both cases.
Import(server) ==
    /\ host = "none"
    /\ host' = server
    /\ app_client' = init_elasticsearch(app_client, Master)
    /\ UNCHANGED search_log
    /\ UNCHANGED <<as_grid_vars, fn_vars, request_vars, cache_vars>>

\* the master forks a worker, which starts with a copy of the master's
\* memory; uwsgi then runs the functions registered with postfork in the
\* worker, before it serves a request; the decorator of lines 22-23
\* registers nothing
Fork(worker) ==
    /\ host # "none"
    /\ worker \notin DOMAIN app_client
    /\ LET copied == SetItem(app_client, worker, app_client[Master])
       IN  app_client' = IF host = "uwsgi"
                         THEN init_elasticsearch(copied, worker)
                         ELSE copied
    /\ UNCHANGED <<host, search_log>>
    /\ UNCHANGED <<as_grid_vars, fn_vars, request_vars, cache_vars>>

\* a worker serves a request: search uses flask.current_app.client
\* (query.py line 89)
WorkerSearch(worker) ==
    /\ worker \in DOMAIN app_client
    /\ search_log' = search_log \cup {[worker |-> worker, client |-> app_client[worker]]}
    /\ UNCHANGED <<host, app_client>>
    /\ UNCHANGED <<as_grid_vars, fn_vars, request_vars, cache_vars>>

NextFork ==
    \/ \E server \in {"uwsgi", "other"} : Import(server)
    \/ \E worker \in 1..MaxWorkers : Fork(worker)
    \/ \E worker \in 1..MaxWorkers : WorkerSearch(worker)

SpecFork == Init /\ [][NextFork]_vars

-----------------------------------------------------------------------------
(* maps/tiles.py: PointCache.get_point called from several threads *)

\* tuple(map(int, colour))
map_int(colour) == [i \in DOMAIN colour |-> int(colour[i])]

\* the arguments get_point is called with, as text
PointArgs ==
    [point_radius : {<<"2">>, <<"0", "2">>, <<"3">>},
     border_width : {<<"1">>},
     resize_factor : {<<"4">>},
     point_colour : {<<<<"2", "5", "5">>, <<"0">>, <<"0">>>>},
     border_colour : {<<<<"2", "5", "5">>, <<"2", "5", "5">>, <<"2", "5", "5">>>>}]

\* key of get_point
PointKey(args) ==
    <<int(args.point_radius), int(args.border_width), int(args.resize_factor),
      map_int(args.point_colour), map_int(args.border_colour)>>

\* create_point(*key): the image, as its size and the two ellipses drawn on it
create_point(key) ==
    LET point_radius == key[1]
        border_width == key[2]
        resize_factor == key[3]
        point_colour == key[4]
        border_colour == key[5]
        diameter == point_radius * 2 * resize_factor
        far_size == diameter - 1
        scaled_border_width == border_width * resize_factor
    IN  [mode |-> "RGBA",
         size |-> <<diameter, diameter>>,
         background |-> [xy |-> <<0, 0, far_size, far_size>>, fill |-> border_colour],
         foreground |-> [xy |-> <<scaled_border_width, scaled_border_width,
                                  far_size - scaled_border_width,
                                  far_size - scaled_border_width>>,
                         fill |-> point_colour]]

\* the other variables a step of get_point leaves alone
get_point_others ==
    <<as_grid_vars, fn_vars, request_vars, cached_fn, lru, ever_computed, fork_vars>>

\* lines 94 to 99: the arguments are normalised into the key; a thread whose
\* call has returned may call again
GetPointCall(t) ==
    /\ tpc[t] \in {"idle", "done"}
    /\ \E args \in PointArgs : tkey' = [tkey EXCEPT ![t] = PointKey(args)]
    /\ tpc' = [tpc EXCEPT ![t] = "check"]
    /\ tvalue' = [tvalue EXCEPT ![t] = None]
    /\ returned' = [returned EXCEPT ![t] = None]
    /\ UNCHANGED <<get_point_others, cache>>

\* line 100: if key not in self.cache
GetPointCheck(t) ==
    /\ tpc[t] = "check"
    /\ tpc' = [tpc EXCEPT ![t] = IF tkey[t] \notin DOMAIN cache THEN "compute" ELSE "return"]
    /\ UNCHANGED <<get_point_others, cache, tkey, tvalue, returned>>

\* line 101, right-hand side: self.create_point(*key)
GetPointCompute(t) ==
    /\ tpc[t] = "compute"
    /\ tvalue' = [tvalue EXCEPT ![t] = Some(create_point(tkey[t]))]
    /\ tpc' = [tpc EXCEPT ![t] = "store"]
    /\ UNCHANGED <<get_point_others, cache, tkey, returned>>

\* line 101, the assignment: self.cache[key] = ...
GetPointStore(t) ==
    /\ tpc[t] = "store"
    /\ cache' = SetItem(cache, tkey[t], tvalue[t][1])
    /\ tpc' = [tpc EXCEPT ![t] = "return"]
    /\ UNCHANGED <<get_point_others, tkey, tvalue, returned>>

\* line 102: return self.cache[key], a KeyError when the key is missing
GetPointReturn(t) ==
    /\ tpc[t] = "return"
    /\ IF tkey[t] \in DOMAIN cache
       THEN /\ returned' = [returned EXCEPT ![t] = Some(cache[tkey[t]])]
            /\ tpc' = [tpc EXCEPT ![t] = "done"]
       ELSE /\ returned' = returned
            /\ tpc' = [tpc EXCEPT ![t] = "raised"]
    /\ UNCHANGED <<get_point_others, cache, tkey, tvalue>>

NextPointCache ==
    \/ \E t \in Threads : GetPointCall(t)
    \/ \E t \in Threads : GetPointCheck(t)
    \/ \E t \in Threads : GetPointCompute(t)
    \/ \E t \in Threads : GetPointStore(t)
    \/ \E t \in Threads : GetPointReturn(t)

SpecPointCache == Init /\ [][NextPointCache]_vars

-----------------------------------------------------------------------------
(* What the claims about as_grid speak of *)

\* the cells of the grid, as (x, y)
Cells == (0..(grid_size - 1)) \X (0..(grid_size - 1))

\* the character at cell (x, y) of the result: grid[y][x]
CharAt(cell) == grid[cell[2] + 1][cell[1] + 1]

\* the distinct non-space characters of the grid
NonSpaceChars == {CharAt(cell) : cell \in Cells} \ {Space}

\* the inverse of the UTFGrid id encoding: the index a character stands for,
\* 0 for a character that stands for none (space and below, '"' and '\')
UTFGridDecode(ch) ==
    IF ch <= 32 \/ ch = 34 \/ ch = 92 THEN 0
    ELSE LET d1 == IF ch >= 93 THEN ch - 1 ELSE ch
             d2 == IF d1 >= 35 THEN d1 - 1 ELSE d1
         IN  d2 - 32

\* the cells (x, y) of the diamond of mark m that lie in the grid
DiamondInGrid(m) ==
    {cell \in get_points_to_mark(m.x, m.y, point_width) : cell \in Cells}

\* the in-grid diamond of every mark processed, by position in the order
Diamonds == [i \in 1..Len(marks) |-> DiamondInGrid(marks[i])]

\* the marks that paint a grid cell, d being Diamonds
Painting(d) == {i \in DOMAIN d : d[i] # {}}

\* the id of the i-th mark, when it paints: its rank among the painting marks
IdOf(d, i) == Cardinality({j \in Painting(d) : j <= i})

\* the marks that paint the cell
Painters(d, cell) == {i \in DOMAIN d : cell \in d[i]}

\* the marks that keep a cell no later mark paints
Visible(d) == {i \in DOMAIN d : \E cell \in d[i] : \A j \in Painters(d, cell) : j <= i}

Max(S) == CHOOSE i \in S : \A j \in S : j <= i

\* the marks came in the order of the backing store: descending count
DescendingCount ==
    \A i, j \in 1..Len(marks) : i < j => marks[i].total >= marks[j].total

Running == pc \in {"marking", "returned"}

-----------------------------------------------------------------------------
(* C1 *)

\* C1 as stated: in the UTFGrid as_grid returns, the number of distinct
\* non-space characters of grid is len(keys) - 1 and each decodes to an index
\* in 1..len(keys)-1, also when diamonds overlap or coincide.
C1_AsStated ==
    pc = "returned" =>
        /\ Cardinality(NonSpaceChars) = Len(keys) - 1
        /\ \A ch \in NonSpaceChars : UTFGridDecode(ch) \in 1..(Len(keys) - 1)

\* C1 amended: the number of distinct non-space characters of grid is the
\* number of marks that keep at least one cell no later mark paints, hence at
\* most len(keys) - 1 (a mark whose cells are all painted again keeps its key
\* and its data but no character), and each character decodes to an index in
\* 1..len(keys)-1.
C1_DistinctCharsAreVisibleMarks ==
    pc = "returned" =>
        LET chars == NonSpaceChars
        IN  /\ Cardinality(chars) = Cardinality(Visible(Diamonds))
            /\ Cardinality(chars) <= Len(keys) - 1
            /\ \A ch \in chars : UTFGridDecode(ch) \in 1..(Len(keys) - 1)

\* two marks were processed, the second painted every cell of the first
C1_Witness ==
    /\ pc = "returned"
    /\ Len(keys) = 3
    /\ Cardinality(NonSpaceChars) = 1
    /\ Visible(Diamonds) = {2}

-----------------------------------------------------------------------------
(* C2 *)

\* C2: whatever marks were processed, keys[0] = "", the keys of data are
\* exactly keys[1..], grid has grid_size rows of grid_size characters each, and
\* every non-space character of grid encodes an index in 1..len(keys)-1.
C2_UTFGridShape ==
    pc = "returned" =>
        /\ keys[1] = ""
        /\ DOMAIN data = {keys[k] : k \in 2..Len(keys)}
        /\ Cardinality(DOMAIN data) = Len(keys) - 1
        /\ Len(grid) = grid_size
        /\ \A r \in 1..Len(grid) : Len(grid[r]) = grid_size
        /\ \A ch \in NonSpaceChars : UTFGridDecode(ch) \in 1..(Len(keys) - 1)

\* a grid of two rows with two different characters in it was returned
C2_Witness ==
    /\ pc = "returned"
    /\ grid_size = 2
    /\ Len(keys) = 3
    /\ Cardinality(NonSpaceChars) = 2

-----------------------------------------------------------------------------
(* C3 *)

-----------------------------------------------------------------------------
(* C5 *)

\* the last mark processed, in a step that processes one
LastMark == marks'[Len(marks')]

\* the cells (x, y) of the grid whose character the step changes
Repainted == {cell \in Cells : grid'[cell[2] + 1][cell[1] + 1] # CharAt(cell)}

\* C5: a mark gets a point id exactly when a cell of its diamond lies in the
\* grid; the ids are 1, 2, ... in mark order, so keys is "", "1", ..., "n";
\* only cells of the grid that lie in the mark's diamond are written; a mark
\* whose diamond lies outside the grid takes no id and leaves grid, keys and
\* data as they were.
C5_IdsFollowPaintedMarks ==
    /\ [](Running =>
            /\ point_id = Cardinality(Painting(Diamonds))
            /\ Len(keys) = point_id + 1
            /\ \A k \in 1..point_id : keys[k + 1] = str(k)
            /\ DOMAIN grid = 1..grid_size
            /\ \A r \in DOMAIN grid : DOMAIN grid[r] = 1..grid_size)
    /\ [][(pc = "marking" /\ marks' # marks) =>
            IF \E cell \in get_points_to_mark(LastMark.x, LastMark.y, point_width) :
                   cell \in Cells
            THEN /\ point_id' = point_id + 1
                 /\ keys' = Append(keys, str(point_id'))
                 /\ DOMAIN data' = DOMAIN data \cup {str(point_id')}
                 /\ Repainted \subseteq
                        get_points_to_mark(LastMark.x, LastMark.y, point_width)
            ELSE /\ point_id' = point_id
                 /\ grid' = grid
                 /\ keys' = keys
                 /\ data' = data]_vars

\* a mark outside the grid was passed over and the mark after it, whose
\* diamond lies partly outside the grid, got the id 1
C5_Witness ==
    /\ pc = "returned"
    /\ Len(marks) = 2
    /\ DiamondInGrid(marks[1]) = {}
    /\ DiamondInGrid(marks[2]) # {}
    /\ \E cell \in get_points_to_mark(marks[2].x, marks[2].y, point_width) :
           cell \notin Cells
    /\ keys = <<"", "1">>

-----------------------------------------------------------------------------
(* C4 *)

Applied(fn) == call.fn = fn

\* C4 as stated: get_points_to_mark(4, 4, 3) is the plus of five cells, and for
\* point_width 5 the diamond has 13 cells, in rows of 1, 3, 5, 3 and 1.
C4_AsStated ==
    Applied("get_points_to_mark") =>
        /\ (call.x = 4 /\ call.y = 4 /\ call.point_width = 3) =>
               result = {<<4, 4>>, <<3, 4>>, <<5, 4>>, <<4, 3>>, <<4, 5>>}
        /\ call.point_width = 5 =>
               /\ Cardinality(result) = 13
               /\ \A j \in -2..2 :
                      Cardinality({cell \in result : cell[2] = call.y + j})
                          = 5 - 2 * abs(j)

-----------------------------------------------------------------------------
(* C6 *)

\* C6: the k-th character the generator yields has the code point k + 32, plus
\* 1 if that is >= 34, plus 1 more if the result is >= 92; it is never 32, 34 or
\* 92; the code points increase strictly; the 1st is 33, the 2nd 35, the 59th 93.
C6_Encoding ==
    \A k \in 1..Len(yielded) :
        LET enc == yielded[k][2]
            e1 == k + 32
            e2 == e1 + (IF e1 >= 34 THEN 1 ELSE 0)
        IN  /\ enc = e2 + (IF e2 >= 92 THEN 1 ELSE 0)
            /\ enc \notin {32, 34, 92}
            /\ k > 1 => yielded[k - 1][2] < enc
            /\ k = 1 => enc = 33
            /\ k = 2 => enc = 35
            /\ k = 59 => enc = 93

\* the generator has gone past '\': the 58th character is '[', the 59th ']'
C6_Witness ==
    /\ Len(yielded) >= 59
    /\ yielded[58][2] = 91
    /\ yielded[59] = <<"59", 93>>

-----------------------------------------------------------------------------
(* C7 *)

\* e^k <= c < e^(k+1) for an integer c and k in 0..10. e^0 is 1; for k >= 1
\* e^k is no integer, so e^k <= c is int(e^k) < c, and c < e^(k+1) is
\* c <= int(e^(k+1)).
InExpInterval(c, k) ==
    /\ IF k = 0 THEN 1 <= c ELSE ExpFloor[k + 1] < c
    /\ c <= ExpFloor[k + 2]

\* C7 as stated: for 0 <= k < range_size - 1 every count in [e^k, e^(k+1)) is
\* given the colour index k + 1.
C7_AsStated ==
    Applied("assign_colour") =>
        \A k \in 0..(call.range_size - 2) :
            InExpInterval(call.count, k) => result = k + 1

\* C7 amended: for 1 <= k < range_size - 1 every count in [e^k, e^(k+1)) is
\* given the colour index k + 1; the counts of [e^0, e^1), 1 and 2, are given
\* the different indexes 0 and 1.
C7_ExpIntervalsFromOne ==
    Applied("assign_colour") =>
        /\ \A k \in 1..(call.range_size - 2) :
               InExpInterval(call.count, k) => result = k + 1
        /\ call.count = 1 => result = 0
        /\ (call.count = 2 /\ call.range_size >= 2) => result = 1

\* the last count of [e^3, e^4) was given index 4 of a ramp of six colours
C7_Witness ==
    /\ Applied("assign_colour")
    /\ call.range_size = 5
    /\ call.count = 54
    /\ InExpInterval(call.count, 3)
    /\ result = 4

-----------------------------------------------------------------------------
(* C8 *)

CoreValidationErrors ==
    {"InvalidRequestType", "InvalidStyle", "MissingIndex", "InvalidColour",
     "GridNotPowerOfTwoException"}

\* C8 as stated: a request of render_tile that ends in a core validation
\* error (InvalidRequestType, InvalidStyle, MissingIndex, InvalidColour,
\* GridNotPowerOfTwo) ends before search is called: no search precedes a
\* validation failure.
C8_AsStated ==
    error \in CoreValidationErrors => ~searched

-----------------------------------------------------------------------------
(* C9 *)

\* extract_search_params has been evaluated for the request
SearchParamsExtracted ==
    rpc \in {"search", "params", "render", "done", "failed"}
        /\ error \notin {"InvalidRequestType", "InvalidStyle"}

\* the index list the request supplies, or None: that of the query body when
\* there is a query arg, else that of the indexes arg
SuppliedIndexes ==
    LET args == request.args
    IN  IF "query" \in DOMAIN args
        THEN IF "indexes" \in DOMAIN parse_query_body(args.query)
             THEN Some(parse_query_body(args.query).indexes)
             ELSE None
        ELSE IF "indexes" \in DOMAIN args
             THEN Some(split(args.indexes, ","))
             ELSE None

\* the search body that comes with the supplied indexes, or None
SuppliedSearchBody ==
    LET args == request.args
    IN  IF "query" \in DOMAIN args
        THEN IF "search" \in DOMAIN parse_query_body(args.query)
             THEN Some(parse_query_body(args.query).search)
             ELSE None
        ELSE IF "search" \in DOMAIN args
             THEN Some(json_loads(args.search))
             ELSE None

\* C9 as stated: extract_search_params raises MissingIndex when no index is
\* supplied (no indexes arg and no query arg, a query body with no indexes
\* key, or an empty index list), and when indexes are supplied it returns them
\* stripped of surrounding whitespace together with the search body.
C9_AsStated ==
    SearchParamsExtracted =>
        IF SuppliedIndexes = None \/ SuppliedIndexes[1] = <<>>
        THEN error = "MissingIndex"
        ELSE /\ kwargs # None
             /\ kwargs[1].indexes =
                    [i \in DOMAIN SuppliedIndexes[1] |-> strip(SuppliedIndexes[1][i])]
             /\ kwargs[1].search_body = SuppliedSearchBody

-----------------------------------------------------------------------------
(* C10 *)

\* tile_size / grid_resolution, the quotient, is a power of two
QuotientIsPowerOfTwo ==
    /\ grid_resolution > 0
    /\ TileSize % grid_resolution = 0
    /\ is_power_of_two(TileSize \div grid_resolution)

\* C10 as stated: as_grid fails with GridNotPowerOfTwo exactly when
\* tile_size / grid_resolution is not a power of two, for every integer
\* grid_resolution (one that does not divide tile_size, one above it, zero, a
\* negative one); otherwise it builds a grid with
\* grid_size * grid_resolution = tile_size.
C10_AsStated ==
    pc # "ready" =>
        /\ raised = "GridNotPowerOfTwoException" <=> ~QuotientIsPowerOfTwo
        /\ QuotientIsPowerOfTwo =>
               /\ raised = "none"
               /\ Len(grid) = grid_size
               /\ grid_size * grid_resolution = TileSize

-----------------------------------------------------------------------------
(* C11 *)

\* C11 as stated: a grid.json request with style=heatmap completes and returns
\* the empty document {} for every bucket list: once the search has returned
\* its buckets the request does not fail, and when it is done the response is {}.
C11_AsStated ==
    (/\ request.request_type = "grid.json"
     /\ StyleOf(request.args) = "heatmap"
     /\ searched)
        => /\ error = "none"
           /\ rpc = "done" => response = "{}"

-----------------------------------------------------------------------------
(* C12 *)

\* get_marks was applied to a bucket list as search returns it
AppliedToBuckets(style) ==
    /\ Applied("get_marks")
    /\ call.style = style
    /\ \A i \in 1..Len(call.points) : call.points[i].class = "BucketResult"

\* the number of cells of the grid that some bucket of the list falls in
NonEmptyCells ==
    LET size == FloorDiv(TileSize, call.grid_resolution)
    IN  Cardinality({<<call.points[i].position[1] \div 2,
                       call.points[i].position[2] \div 2>> :
                         i \in {j \in 1..Len(call.points) :
                                    /\ call.points[j].position[1] \in 0..(2 * size - 1)
                                    /\ call.points[j].position[2] \in 0..(2 * size - 1)}})

\* C12 as stated: for the Plot and the Gridded style get_marks yields, for
\* every bucket list, records of the shape as_grid consumes, so that as_grid
\* ends without error; Plot yields one mark per bucket at the bucket's
\* grid-scaled position, Gridded one mark per non-empty cell.
C12_AsStated ==
    \A style \in {"plot", "gridded"} :
        AppliedToBuckets(style) =>
            /\ result.raised = "none"
            /\ \A i \in 1..Len(result.value) :
                   Cardinality(DOMAIN result.value[i]) = AsGridUnpackArity
            /\ style = "plot" =>
                   /\ Len(result.value) = Len(call.points)
                   /\ \A i \in 1..Len(result.value) :
                          <<result.value[i].x, result.value[i].y>>
                              = call.points[i].position
            /\ style = "gridded" => Len(result.value) = NonEmptyCells

-----------------------------------------------------------------------------
(* C13 *)

\* C13 as stated: for every bucket the Plot style marks, whatever its total,
\* the point data has the bucket's centre as record_latitude and
\* record_longitude, and as geo_filter the bucket's GeoJSON polygon: the ring
\* NW, NE, SE, SW, longitude first.
C13_AsStated ==
    (AppliedToBuckets("plot") /\ result.raised = "none") =>
        \A i \in 1..Len(result.value) :
            LET point_data == result.value[i].point_data
                bucket == call.points[i]
            IN  /\ point_data.record_latitude = bucket.centre_latitude
                /\ point_data.record_longitude = bucket.centre_longitude
                /\ "geo_filter" \in DOMAIN point_data
                /\ point_data.geo_filter.type = "Polygon"
                /\ point_data.geo_filter.coordinates =
                       <<<<<<bucket.bbox.w, bucket.bbox.n>>,
                           <<bucket.bbox.e, bucket.bbox.n>>,
                           <<bucket.bbox.e, bucket.bbox.s>>,
                           <<bucket.bbox.w, bucket.bbox.s>>>>>>

-----------------------------------------------------------------------------
(* C14 *)

\* C14 as stated: for every non-empty cell the Gridded style marks, whatever
\* its total, the point data as_grid stores has record_latitude and
\* record_longitude parsed from the "lat,lon" text of the meta.geo of the
\* cell's representative record, and has no geo_filter entry.
C14_AsStated ==
    (/\ Applied("get_marks")
     /\ call.style = "gridded"
     /\ result.raised = "none") =>
        \A i \in 1..Len(result.value) :
            LET point_data == PointData(result.value[i])
                geo == split(result.value[i].first.meta.geo, ",")
            IN  /\ point_data.record_latitude = float(geo[1])
                /\ point_data.record_longitude = float(geo[2])
                /\ "geo_filter" \notin DOMAIN point_data

-----------------------------------------------------------------------------
(* C15 *)

\* C15 as stated: for every mark of the UTFGrid, point_data.count is the
\* mark's total and point_data.data is the rebuild of the `data` subtree of
\* the mark's representative record, the rebuild applying at the root the rule
\* of the nested levels (unwrap a mapping with "_u", else drop the keys that
\* begin with "_" but "_id" and recurse, lists element by element).
C15_AsStated ==
    pc = "returned" =>
        LET d == Diamonds
        IN  \A i \in Painting(d) :
                /\ data[str(IdOf(d, i))].count = marks[i].total
                /\ data[str(IdOf(d, i))].data
                       = rebuild_dict_or_list(marks[i].first.data)

-----------------------------------------------------------------------------
(* C16 *)

\* C16 as stated: rebuild_data is idempotent on every record tree, those
\* whose "_u" payloads are mappings or lists included:
\* rebuild_data(rebuild_data(d)) = rebuild_data(d).
C16_AsStated ==
    Applied("rebuild_data") => rebuild_data(result) = result

-----------------------------------------------------------------------------
(* C19 *)

\* the table of the claim, for a zoom level in 0..19
ClaimedPrecision(z) ==
    CASE z \in {0, 1} -> 3
      [] z \in {2, 3} -> 4
      [] z \in {4, 5} -> 5
      [] z \in {6, 7} -> 6
      [] z \in {8, 9} -> 7
      [] z = 10 -> 8
      [] z \in {11, 12} -> 9
      [] z \in {13, 14} -> 10
      [] z \in {15, 16, 17} -> 11
      [] z \in {18, 19} -> 12

\* C19: calculate_precision is the table applied to z clamped to 0..19: it
\* is defined for every integer z (3 below 0, 12 above 19), its result lies in
\* 3..12 and does not decrease as z grows.
C19_PrecisionTable ==
    Applied("calculate_precision") =>
        /\ result = ClaimedPrecision(IF call.z < 0 THEN 0
                                     ELSE IF call.z > 19 THEN 19 ELSE call.z)
        /\ result \in 3..12
        /\ \A z \in (0 - MaxZoom)..call.z : calculate_precision(z) <= result
        /\ call.z = 5 => result = 5
        /\ call.z = 11 => result = 9

\* precision(25) = 12, clamped
C19_Witness ==
    /\ Applied("calculate_precision")
    /\ call.z = 25
    /\ result = 12

-----------------------------------------------------------------------------
(* C20 *)

\* C20: for the Plot and the Gridded style and every grid_resolution and
\* point_width as_grid accepts, the empty bucket list gives no marks, and
\* as_grid returns grid_size rows of grid_size spaces, keys [""] and data {}.
C20_EmptyUTFGrid ==
    (pc = "returned" /\ marks = <<>>) =>
        /\ \A style \in {"plot", "gridded"} :
               get_marks(style, <<>>, grid_resolution) = Ok(<<>>)
        /\ grid_size = FloorDiv(TileSize, grid_resolution)
        /\ Len(grid) = grid_size
        /\ \A r \in 1..Len(grid) : grid[r] = [c \in 1..grid_size |-> Space]
        /\ keys = <<"">>
        /\ DOMAIN data = {}

\* as_grid returned a grid of two rows for no marks
C20_Witness ==
    /\ pc = "returned"
    /\ marks = <<>>
    /\ grid_size = 2
    /\ grid = <<<<Space, Space>>, <<Space, Space>>>>

-----------------------------------------------------------------------------
(* C17 *)

\* C17 as stated: the caches of draw_point and draw_heatmap_point never evict;
\* after any sequence of calls every key that was ever computed is still
\* cached, so a repeated call with it is served without recomputation.
C17_AsStated == ever_computed \subseteq Cached(lru)

-----------------------------------------------------------------------------
(* C18 *)

\* C18: under every interleaving of get_point calls, every value a thread
\* computes and every value the cache holds is create_point of its key, a
\* thread past its check or its own store finds its key in the cache and
\* never gets a KeyError, and every call returns create_point of its key.
C18_ConcurrentGetPoint ==
    /\ \A k \in DOMAIN cache : cache[k] = create_point(k)
    /\ \A t \in Threads :
           /\ tvalue[t] # None => tvalue[t] = Some(create_point(tkey[t]))
           /\ tpc[t] \in {"return", "done"} => tkey[t] \in DOMAIN cache
           /\ tpc[t] # "raised"
           /\ tpc[t] = "done" => returned[t] = Some(create_point(tkey[t]))

\* two threads asked for the same missing key, both computed and stored the
\* point, and both calls have returned
C18_Witness ==
    \E t \in Threads, u \in Threads :
        /\ t # u
        /\ tkey[t] = tkey[u]
        /\ tvalue[t] # None /\ tvalue[u] # None
        /\ tpc[t] = "done" /\ tpc[u] = "done"

-----------------------------------------------------------------------------
(* C21 *)

\* C21: longitude_to_x(lon) of a tile of zoom level z is
\* ((w + 180) / 360) * 2^z, where w is lon when -180 <= lon <= 180 and
\* ((lon + 180) mod 360) - 180 otherwise; so it lies in [0, 2^z], it is 2^z at
\* 180 and 0 at -180, and it is 0 at 540 and at -540.
C21_LongitudeToX ==
    Applied("longitude_to_x") =>
        LET lon == call.longitude
            zoom == 2^call.z
            w == IF -180 <= lon /\ lon <= 180
                 THEN lon
                 ELSE ((lon + 180) % 360) - 180
        IN  /\ result = Fraction((w + 180) * zoom, 360)
            /\ 0 <= result.n /\ result.n <= zoom * result.d
            /\ lon \in {-540, -180, 540} => result = [n |-> 0, d |-> 1]
            /\ lon = 180 => result = [n |-> zoom, d |-> 1]
            /\ (lon = 0 /\ call.z = 0) => result = [n |-> 1, d |-> 2]

\* longitude_to_x(540) = 0 at zoom level 2: the longitude was wrapped
C21_Witness ==
    /\ Applied("longitude_to_x")
    /\ call.longitude = 540
    /\ call.z = 2
    /\ result = [n |-> 0, d |-> 1]

-----------------------------------------------------------------------------
(* C24 *)

-----------------------------------------------------------------------------
(* C22 *)

\* C22 as stated: PlotTile.render draws the disc of every bucket with the
\* request's point_colour as fill and its border_colour as border, whatever
\* the bucket's position and count, and it succeeds for every bucket whose
\* centre longitude lies in [-180, 180].
C22_AsStated ==
    Applied("PlotTile.render") =>
        /\ result.raised = "none"
        /\ \A i \in 1..Len(result.value) :
               /\ result.value[i].colour = call.point_colour.hex
               /\ result.value[i].border_colour = call.border_colour.hex

-----------------------------------------------------------------------------
(* C23 *)

\* the response has aggregations.grid.buckets, and every bucket has key,
\* doc_count and first.hits.hits[0]._source
WellFormed(answer) ==
    /\ "aggregations" \in DOMAIN answer
    /\ "grid" \in DOMAIN answer.aggregations
    /\ "buckets" \in DOMAIN answer.aggregations.grid
    /\ \A i \in 1..Len(answer.aggregations.grid.buckets) :
           LET bucket == answer.aggregations.grid.buckets[i]
           IN  /\ {"key", "doc_count", "first"} \subseteq DOMAIN bucket
               /\ bucket.first.hits.hits # <<>>
               /\ "_source" \in DOMAIN bucket.first.hits.hits[1]

\* C23 as stated: search fails with UpstreamUnavailable when the backing
\* store cannot be reached and with UpstreamMalformed when the response has
\* not the expected shape; in both cases it returns no bucket list.
C23_AsStated ==
    Applied("search") =>
        /\ ~call.upstream.reachable =>
               /\ result.raised = "UpstreamUnavailable"
               /\ result.value = None
        /\ (call.upstream.reachable /\ ~WellFormed(call.upstream.response)) =>
               /\ result.raised = "UpstreamMalformed"
               /\ result.value = None

-----------------------------------------------------------------------------
(* C25 and C26 *)

\* the points of the call that the cell <<y, x>> gets, by their place in the
\* list: the ones whose position on the grid's scale is inside the grid and
\* floors to the cell. Positions are in halves of a cell.
AssignedTo(cell) ==
    LET size == FloorDiv(TileSize, call.grid_resolution)
    IN  {i \in 1..Len(call.points) :
            LET x == call.points[i].position[1]
                y == call.points[i].position[2]
            IN  /\ 0 <= x /\ x < 2 * size
                /\ 0 <= y /\ y < 2 * size
                /\ cell = <<y \div 2, x \div 2>>}

RECURSIVE SumOfTotals(_)
\* the sum of the totals of the points at the places of `indexes`
SumOfTotals(indexes) ==
    IF indexes = {} THEN 0
    ELSE LET i == CHOOSE j \in indexes : TRUE
         IN  call.points[i].total + SumOfTotals(indexes \ {i})

\* the lists that hold the points of the call in another order
Reorderings ==
    LET n == Len(call.points)
    IN  {[i \in 1..n |-> call.points[perm[i]]] :
            perm \in {f \in [1..n -> 1..n] : \A i, j \in 1..n : f[i] = f[j] => i = j}}

\* C25: every cell's count is the sum of the totals of exactly the points
\* whose position lies in the grid and floors to the cell; a point outside
\* the grid is dropped and counts in no cell; the counts are the same for
\* every order of the list.
C25_CountsConserved ==
    Applied("group_points") =>
        LET size == FloorDiv(TileSize, call.grid_resolution)
        IN  /\ DOMAIN result = (0..(size - 1)) \X (0..(size - 1))
            /\ \A cell \in DOMAIN result :
                   result[cell].total = SumOfTotals(AssignedTo(cell))
            /\ \A reordered \in Reorderings :
                   \A cell \in DOMAIN result :
                       group_points(reordered, size)[cell].total = result[cell].total

\* a point of one record and a point of two fell into the same cell, which
\* counts three
C25_Witness ==
    /\ Applied("group_points")
    /\ Len(call.points) = 2
    /\ \E cell \in DOMAIN result :
           /\ AssignedTo(cell) = {1, 2}
           /\ result[cell].total = 3

\* the least number of a non-empty set of numbers
Least(indexes) == CHOOSE i \in indexes : \A j \in indexes : i <= j

\* C26: a cell's first record is the record of the earliest point of the list
\* that was assigned to the cell, whatever points follow it; a cell has a
\* first record exactly when some point was assigned to it.
C26_FirstRecordIsEarliest ==
    Applied("group_points") =>
        \A cell \in DOMAIN result :
            IF AssignedTo(cell) = {}
            THEN result[cell].first = None
            ELSE result[cell].first = Some(call.points[Least(AssignedTo(cell))].first)

\* two points with different records fell into the same cell, which kept the
\* record of the first
C26_Witness ==
    /\ Applied("group_points")
    /\ Len(call.points) = 2
    /\ call.points[1].first # call.points[2].first
    /\ \E cell \in DOMAIN result :
           /\ AssignedTo(cell) = {1, 2}
           /\ result[cell].first = Some(call.points[1].first)

-----------------------------------------------------------------------------
(* C27 *)

\* n / 100
Hundredths(n) == Fraction(n, 100)

\* C27: the bounding box of search has the corners top_left(0.01) =
\* translate(-0.01, -0.01) and bottom_right(0.01) = translate(1.01, 1.01),
\* each clamped to the latitudes [-85.0511, 85.0511] and the longitudes
\* [-180, 180]; the four corners call translate with (-e, -e), (1 + e, -e),
\* (-e, 1 + e) and (1 + e, 1 + e), so that they move outward as e grows, and
\* middle() is translate(0.5, 0.5).
C27_CornersAndBoundingBox ==
    /\ Applied("bounding_box") =>
           LET corner_tl == translate(call.tile, Hundredths(-1), Hundredths(-1))
               corner_br == translate(call.tile, Hundredths(101), Hundredths(101))
               Clamped(value, limit) ==
                   IF FracLess(limit, value) THEN limit
                   ELSE IF FracLess(value, FracNeg(limit)) THEN FracNeg(limit)
                   ELSE value
           IN  /\ result.top_left = <<Clamped(corner_tl[1], MercatorLimit),
                                      Clamped(corner_tl[2], LongitudeLimit)>>
               /\ result.bottom_right = <<Clamped(corner_br[1], MercatorLimit),
                                          Clamped(corner_br[2], LongitudeLimit)>>
               /\ call.tile.z = 0 =>
                      /\ result.top_left = <<MercatorLimit, Hundredths(-18000)>>
                      /\ result.bottom_right =
                             <<FracNeg(MercatorLimit), Hundredths(18000)>>
    /\ Applied("corner") =>
           LET e == call.extra
               one_plus_e == FracAdd(Hundredths(100), e)
               plain == Corner(call.name, call.tile, Hundredths(0))
               Moved == e # Hundredths(0)
           IN  CASE call.name = "top_left" ->
                        /\ result = translate(call.tile, FracNeg(e), FracNeg(e))
                        /\ Moved => /\ FracLess(plain[1], result[1])
                                    /\ FracLess(result[2], plain[2])
                 [] call.name = "top_right" ->
                        /\ result = translate(call.tile, one_plus_e, FracNeg(e))
                        /\ Moved => /\ FracLess(plain[1], result[1])
                                    /\ FracLess(plain[2], result[2])
                 [] call.name = "bottom_left" ->
                        /\ result = translate(call.tile, FracNeg(e), one_plus_e)
                        /\ Moved => /\ FracLess(result[1], plain[1])
                                    /\ FracLess(result[2], plain[2])
                 [] call.name = "bottom_right" ->
                        /\ result = translate(call.tile, one_plus_e, one_plus_e)
                        /\ Moved => /\ FracLess(result[1], plain[1])
                                    /\ FracLess(plain[2], result[2])
                 [] call.name = "middle" ->
                        result = translate(call.tile, Hundredths(50), Hundredths(50))

\* the bounding box of the tile 1/1/1, the lower right quarter of the map:
\* its top left corner lies 0.01 of a tile up and left of the map's centre,
\* its bottom right corner is clamped
C27_Witness ==
    /\ Applied("bounding_box")
    /\ call.tile = [x |-> 1, y |-> 1, z |-> 1]
    /\ result.top_left = <<Hundredths(1), Hundredths(-180)>>
    /\ result.bottom_right = <<FracNeg(MercatorLimit), Fraction(180, 1)>>

-----------------------------------------------------------------------------
(* C28 *)

\* C28 as stated: when the server forks its workers after the import, every
\* search run in a worker uses a client created in that worker after the
\* fork, never the client the master created.
C28_AsStated ==
    \A entry \in search_log : entry.client.created_in = entry.worker

-----------------------------------------------------------------------------
(* C29 *)

\* C29 as stated: for every bucket total >= 1 the heatmap weight lies in
\* 1..10, and every alpha draw_heatmap_point writes for such a weight, any
\* radius and any intensity in [0, 1] is a channel value in 0..255.
C29_AsStated ==
    call.fn = "draw_heatmap_point" =>
        /\ call.weight \in 1..10
        /\ \A pixel \in DOMAIN result.value : result.value[pixel] \in AlphaRange

\* the half of C29 that holds: the weight lies in 1..10
C29_WeightInRange ==
    call.fn = "draw_heatmap_point" => call.weight \in 1..10

-----------------------------------------------------------------------------
(* C30 *)

\* the place of the cell <<y, x>> when the cells are read row by row
CellRank(cell, size) == cell[1] * size + cell[2]

\* C30: for the Gridded style with point_width 0 or 1 the UTFGrid matches the
\* grouped cells one to one: grid[y][x] is not a space exactly when cell
\* (x, y) has a count above 0, different non-empty cells carry different
\* characters, len(keys) - 1 is the number of non-empty cells, the ids are
\* given in row-major order of the cells, and data[id].count is the count of
\* the cell.
C30_GridMatchesCells ==
    (pc = "returned" /\ call.fn = "get_marks") =>
        LET cells == group_points(call.points, grid_size)
            NonEmpty == {cell \in DOMAIN cells : cells[cell].total > 0}
            char(cell) == grid[cell[1] + 1][cell[2] + 1]
            id(cell) == 1 + Cardinality({other \in NonEmpty :
                               CellRank(other, grid_size) < CellRank(cell, grid_size)})
        IN  /\ \A cell \in DOMAIN cells : (char(cell) # Space) <=> (cell \in NonEmpty)
            /\ \A one \in NonEmpty, two \in NonEmpty :
                   one # two => char(one) # char(two)
            /\ Len(keys) - 1 = Cardinality(NonEmpty)
            /\ \A cell \in NonEmpty :
                   /\ char(cell) = EncodeId(id(cell))
                   /\ keys[id(cell) + 1] = str(id(cell))
                   /\ data[str(id(cell))].count = cells[cell].total

\* a UTFGrid of two non-empty cells in different rows and columns, the one in
\* the lower row left of the other, drawn with the default point_width
C30_Witness ==
    /\ pc = "returned"
    /\ call.fn = "get_marks"
    /\ point_width = 1
    /\ Len(keys) = 3
    /\ \E one \in DOMAIN data, two \in DOMAIN data :
           /\ data[one].count = 2
           /\ data[two].count = 1
    /\ grid[1][2] # Space
    /\ grid[2][1] # Space

====
